---- MODULE Spec2Model ----
(***************************************************************************)
(* SocketStream: the signaling / matchmaking server (server index.ts) and  *)
(* the React client (App, useWebRTC).                                      *)
(*                                                                         *)
(* Spec     : the server alone, driven by arbitrary socket.io clients.     *)
(*            Every connected socket may send any event at any time.       *)
(* SpecClient : socket 1 runs the React client (App with useMediaStream    *)
(*            and useWebRTC) over FIFO connections to the server; the      *)
(*            other sockets stay arbitrary clients.                        *)
(***************************************************************************)
EXTENDS Integers, Sequences, FiniteSets, TLC

(* ----------------------------- bounds ---------------------------------- *)
\* socket ids handed out by the transport; an id is never reused
MaxSockets == 3
\* distinct interest tags a request can carry
NumTags == 2
\* agent backend calls in flight at once
MaxPending == 1
\* sockets that connect in SpecAgent
MaxAgentSockets == 2
\* rooms one socket is a member of at once (its own default room aside)
MaxRooms == 2

Sockets == 1..MaxSockets
Tags == 1..NumTags
\* a ChatRequest { mode, interests }: interests is a tag list, kept as its set of
\* tags; hasInterests is FALSE when the field is absent from the payload
\* (the agent branch never reads interests, so one agent request stands for all)
Requests ==
  [mode : {"human"}, interests : SUBSET Tags, hasInterests : {TRUE}]
    \cup [mode : {"ai"}, interests : {{}}, hasInterests : {TRUE}]
\* a human request whose payload carries no interests field
Malformed == [mode |-> "human", interests |-> {}, hasInterests |-> FALSE]
\* peerId "ai-agent" of an agent match
AiAgent == 0
\* `room_${partnerId}_${socket.id}` is kept as <<partnerId, socket.id>>
RoomNames == (Sockets \cup {AiAgent}) \X Sockets

VARIABLES
  status,        \* socket id -> "fresh" (not yet connected) | "open" | "closed"
  waitingQueue,  \* let waitingQueue: QueuedUser[]
  rooms,         \* socket.rooms without the socket's own default room
  emits,         \* what the handler that ran last emitted, in order
  serverUp,      \* FALSE once a handler has thrown (uncaught: the process ends)
  pending,       \* agent backend calls in flight (send_message awaiting callGeminiRetry)
  pdCount,       \* history: <<P, room, n>>: P's withdrawals from room sent n >= 1 peer_disconnected
  withdrawn,     \* history: <<P, room>> such that P withdrew from room with the peer still in it
  wdRun,         \* history: per socket, consecutive withdrawal events (capped at 2)
  inAgent,       \* history: per socket, whether its last join_mode opened an agent session
  lastJoin,      \* history: the join_mode handled last, if the last event was one (see HistScan)
  lastCall,      \* history: what the backend reply handled last made callGeminiRetry do
  lastOp,        \* history: the event handled last and its sender (SpecPool, SpecRelay)
  \* ---- the React client on socket ME ----
  view,              \* App: const [view, setView]
  mode,              \* App: const [mode, setMode]
  hardwareRequested, \* App: const [hardwareRequested, setHardwareRequested]
  chatData,          \* App: const [chatData, setChatData]
  isPeerDisconnected,\* App: const [isPeerDisconnected, setIsPeerDisconnected]
  myStream,          \* useMediaStream: const [stream, setStream] (TRUE: a MediaStream)
  streamRef,         \* useMediaStream: streamRef.current (TRUE: a MediaStream with live tracks)
  camMounted,        \* a getUserMedia call is pending whose effect has mounted = true
  connectionState,   \* useWebRTC: const [connectionState, setConnectionState]
  peerStream,        \* useWebRTC: const [peerStream, setPeerStream] (TRUE: a MediaStream)
  peerRef,           \* useWebRTC: peerRef.current (TRUE: it holds inst)
  inst,              \* the Peer created by the effect run whose signal_received listener is registered
  rendered,          \* the values of the effects' dependencies in the render committed last
  toRun,             \* effects whose cleanup has run and whose body is still to run in this commit
  sync,              \* a click handler's updates are being flushed (nothing else runs in between)
  up,                \* events the client has emitted and the server has not handled yet
  down,              \* events emitted to the client that its listeners have not handled yet
  matchCount,        \* history: match_found events emitted to ME so far
  pdSeen,            \* history: peer_disconnected events emitted to ME since its last match_found
  lastFeed,          \* history: what the listeners did with the signal_received handled last
  \* ---- useMediaStream on its own (SpecMedia) ----
  hookEnabled,       \* the prop enabled as its owner has set it
  hookRun,           \* the effect run committed last: its enabled and its getUserMedia call
  hookStream,        \* const [stream, setStream]: 0 (null) or the call that gave the stream
  hookRef,           \* streamRef.current: 0 (null) or the call that gave the stream
  calls,             \* getUserMedia calls in order, each with the state of its stream
  hookGone,          \* the component has unmounted
  \* ---- App's chat ----
  messages           \* App: const [messages, setMessages]; epoch is history (see Relay)

serverVars == <<status, waitingQueue, rooms, emits, serverUp, pending>>
opVars == <<lastCall, lastOp>>
histVars == <<pdCount, withdrawn, wdRun, inAgent, lastJoin, opVars>>
appVars == <<view, mode, hardwareRequested, chatData, isPeerDisconnected>>
mediaVars == <<myStream, streamRef, camMounted>>
rtcVars == <<connectionState, peerStream, peerRef, inst>>
reactVars == <<rendered, toRun, sync>>
netVars == <<up, down, matchCount, pdSeen>>
hookVars == <<hookEnabled, hookRun, hookStream, hookRef, calls, hookGone>>
chatVars == <<messages>>
clientVars == <<appVars, mediaVars, rtcVars, reactVars, netVars, lastFeed, hookVars, chatVars>>
vars == <<serverVars, histVars, clientVars>>

(* ----------------------------- messages -------------------------------- *)
\* one record shape for every emitted event; unused fields keep these defaults
NoMsg ==
  [to |-> 0, ev |-> "none", roomId |-> <<0, 0>>, peerId |-> 0, isAi |-> FALSE,
   initiator |-> FALSE, from |-> 0, signal |-> 0, sender |-> "none", via |-> <<0, 0>>,
   stale |-> FALSE, epoch |-> 0]

(* ------------------------- pure helpers -------------------------------- *)
Min(S) == CHOOSE x \in S : \A y \in S : x <= y

\* waitingQueue.filter(user => user.id !== socket.id), dropped altogether
FilterQueueKeepsAll(q, s) == q

\* a filter that empties the queue
FilterQueueClears(q, s) == <<>>

\* waitingQueue.filter(user => user.id !== socket.id)
FilterQueue(q, s) == SelectSeq(q, LAMBDA user : user.id # s)

\* a compatibility test that forgets the "both lists empty" half of the tag rule
CompatibleTagsOnly(userTags, interests) == userTags \cap interests # {}

\* a compatibility test that forgets the "both non-empty" half of the tag rule
CompatibleOneSided(userTags, interests) ==
  \/ userTags = {}
  \/ userTags \cap interests # {}

\* the two tests of the scan: both lists empty, or both non-empty with a common tag
Compatible(userTags, interests) ==
  \/ userTags = {} /\ interests = {}
  \/ /\ userTags # {}
     /\ interests # {}
     /\ \E tag \in userTags : tag \in interests

\* a scan that keeps going after a hit, so the last compatible entry wins
MatchedIndexLast(q, userTags) ==
  LET hits == {i \in 1..Len(q) : Compatible(userTags, q[i].interests)}
  IN  IF hits = {} THEN 0 ELSE CHOOSE i \in hits : \A j \in hits : j <= i

\* the linear scan with break: index of the first compatible entry; the code's
\* -1 (none) is 0 here because sequences start at 1
MatchedIndex(q, userTags) ==
  LET hits == {i \in 1..Len(q) : Compatible(userTags, q[i].interests)}
  IN  IF hits = {} THEN 0 ELSE Min(hits)

\* a splice that takes nothing out
SpliceKeeps(q, i) == q

\* waitingQueue.splice(matchedIndex, 1)
Splice(q, i) == SubSeq(q, 1, i - 1) \o SubSeq(q, i + 1, Len(q))

\* the members of a room other than the sender, in id order: socket.to(room)
RECURSIVE SetToSeq(_)
SetToSeq(S) == IF S = {} THEN <<>> ELSE <<Min(S)>> \o SetToSeq(S \ {Min(S)})

Others(s, room) == {t \in Sockets \ {s} : room \in rooms[t]}

RoomOrd(r) == r[1] * (MaxSockets + 1) + r[2]
RECURSIVE RoomSeq(_)
RoomSeq(R) ==
  IF R = {} THEN <<>>
  ELSE LET r == CHOOSE x \in R : \A y \in R : RoomOrd(x) <= RoomOrd(y)
       IN  <<r>> \o RoomSeq(R \ {r})

\* io.to(id).emit(...) and socket.emit(...): reaches the socket if it is connected
EmitTo(t, m) ==
  IF t \in Sockets /\ status[t] = "open" THEN <<[m EXCEPT !.to = t]>> ELSE <<>>

\* socket.to(room).emit(...): every member of the room but the sender
RECURSIVE EmitEach(_, _)
EmitEach(ts, m) ==
  IF ts = <<>> THEN <<>> ELSE <<[m EXCEPT !.to = Head(ts)]>> \o EmitEach(Tail(ts), m)

Broadcast(s, room, m) == EmitEach(SetToSeq(Others(s, room)), [m EXCEPT !.via = room])

(* ------------------------- join_mode ----------------------------------- *)
\* an agent match that makes the requester the responder
AiMatchAsResponder(s) ==
  [NoMsg EXCEPT !.ev = "match_found", !.roomId = <<AiAgent, s>>, !.peerId = AiAgent,
                !.isAi = TRUE, !.initiator = FALSE]

\* the agent match: { roomId: `ai_${socket.id}`, peerId: "ai-agent", isAi: true, initiator: true }
AiMatch(s) ==
  [NoMsg EXCEPT !.ev = "match_found", !.roomId = <<AiAgent, s>>, !.peerId = AiAgent,
                !.isAi = TRUE, !.initiator = TRUE]

\* roles swapped: the waiting partner is told to answer
PartnerMatchAsResponder(roomId, s) ==
  [NoMsg EXCEPT !.ev = "match_found", !.roomId = roomId, !.peerId = s, !.initiator = FALSE]

\* { ...partnerMatch, initiator: true }
PartnerMatch(roomId, s) ==
  [NoMsg EXCEPT !.ev = "match_found", !.roomId = roomId, !.peerId = s, !.initiator = TRUE]

\* { ...selfMatch, initiator: false }
SelfMatch(roomId, partnerId) ==
  [NoMsg EXCEPT !.ev = "match_found", !.roomId = roomId, !.peerId = partnerId,
                !.initiator = FALSE]

WaitingInQueue == [NoMsg EXCEPT !.ev = "waiting_in_queue"]

\* a room named after the partner alone
RoomIdOfPartner(partnerId, s) == <<partnerId, partnerId>>

\* const roomId = `room_${partnerId}_${socket.id}`
RoomId(partnerId, s) == <<partnerId, s>>

\* socket.on("join_mode", (request) => ...)
JoinMode(s, request) ==
  LET q1 == FilterQueue(waitingQueue, s) IN
  IF request.mode = "ai" THEN
    /\ waitingQueue' = q1
    /\ rooms' = rooms
    /\ emits' = EmitTo(s, AiMatch(s))
    /\ serverUp' = serverUp
  ELSE IF ~request.hasInterests THEN
    \* request.interests.join(", ") in the log line throws a TypeError
    /\ waitingQueue' = q1
    /\ rooms' = rooms
    /\ emits' = <<>>
    /\ serverUp' = FALSE
  ELSE
    LET userTags == request.interests
        matchedIndex == MatchedIndex(q1, userTags)
    IN  IF matchedIndex # 0 THEN
          LET partnerId == q1[matchedIndex].id
              roomId == RoomId(partnerId, s)
          IN  /\ waitingQueue' = Splice(q1, matchedIndex)
              /\ rooms' = [t \in Sockets |->
                            IF t = s \/ (t = partnerId /\ status[t] = "open")
                            THEN rooms[t] \cup {roomId} ELSE rooms[t]]
              /\ emits' = EmitTo(partnerId, PartnerMatch(roomId, s))
                            \o EmitTo(s, SelfMatch(roomId, partnerId))
              /\ serverUp' = serverUp
        ELSE
          /\ waitingQueue' = Append(q1, [id |-> s, interests |-> userTags])
          /\ rooms' = rooms
          /\ emits' = EmitTo(s, WaitingInQueue)
          /\ serverUp' = serverUp

(* ------------------------- signal -------------------------------------- *)
\* a relay that tags the event with the target instead of the sender
SignalFromTarget(s, data) ==
  /\ emits' = EmitTo(data.target,
                     [NoMsg EXCEPT !.ev = "signal_received", !.signal = data.signal,
                                   !.from = data.target])
  /\ UNCHANGED <<waitingQueue, rooms, serverUp>>

\* socket.on("signal", (data) => io.to(data.target).emit("signal_received", ...))
Signal(s, data) ==
  /\ emits' = EmitTo(data.target,
                     [NoMsg EXCEPT !.ev = "signal_received", !.signal = data.signal,
                                   !.from = s])
  /\ UNCHANGED <<waitingQueue, rooms, serverUp>>

(* ------------------------- leave_chat / disconnecting ------------------ *)
PeerDisconnected == [NoMsg EXCEPT !.ev = "peer_disconnected"]

\* socket.rooms.forEach(room => socket.to(room).emit("peer_disconnected"))
RECURSIVE NotifyRooms(_, _)
NotifyRooms(s, rs) ==
  IF rs = <<>> THEN <<>>
  ELSE Broadcast(s, Head(rs), PeerDisconnected) \o NotifyRooms(s, Tail(rs))

\* leave_chat without the socket.leave(room) call
RoomsAfterLeaveStays(s) == rooms

\* socket.leave(room) for every room but the socket's own
RoomsAfterLeave(s) == [rooms EXCEPT ![s] = {}]

\* socket.on("leave_chat", () => ...)
LeaveChat(s) ==
  /\ waitingQueue' = FilterQueue(waitingQueue, s)
  /\ emits' = NotifyRooms(s, RoomSeq(rooms[s]))
  /\ rooms' = RoomsAfterLeave(s)
  /\ serverUp' = serverUp

\* socket.on("disconnecting", () => ...); socket.io then takes the socket out of
\* every room and drops the connection
Disconnecting(s) ==
  /\ waitingQueue' = FilterQueue(waitingQueue, s)
  /\ emits' = NotifyRooms(s, RoomSeq(rooms[s]))
  /\ rooms' = [rooms EXCEPT ![s] = {}]
  /\ serverUp' = serverUp

(* ------------------------- send_message (human branch) ----------------- *)
\* socket.to(data.roomId).emit("receive_message", { sender: "peer", ... })
SendMessageHuman(s, data) ==
  /\ emits' = Broadcast(s, data.roomId,
                        [NoMsg EXCEPT !.ev = "receive_message", !.sender = "peer"])
  /\ UNCHANGED <<waitingQueue, rooms, serverUp>>

(* ------------------------- history variables --------------------------- *)
CountPd(es, room) ==
  Cardinality({i \in DOMAIN es : es[i].ev = "peer_disconnected" /\ es[i].via = room})

HumanMatches(es) ==
  {es[i].roomId : i \in {j \in DOMAIN es : es[j].ev = "match_found" /\ ~es[j].isAi}}

\* peer_disconnected events sent so far for the withdrawal of s from room
PdSent(s, room) ==
  IF \E k \in pdCount : k[1] = s /\ k[2] = room
  THEN (CHOOSE k \in pdCount : k[1] = s /\ k[2] = room)[3]
  ELSE 0

\* outcome: what the attempt came back with; next: "return", "backoff" or
\* "throw"; delays: the waits of the call so far, the one just started included
NoCall == [sock |-> 0, attempt |-> 0, outcome |-> "none", next |-> "none", delays |-> <<>>]

\* op: "join_mode", "leave_chat", "disconnect", "signal" or "send_message";
\* queued: the sender had a waiting entry when the event arrived; target and
\* signal: the data of a signal event
NoOp == [op |-> "none", sock |-> 0, queued |-> FALSE, target |-> 0, signal |-> 0]

NoScan ==
  [sock |-> 0, mode |-> "none", interests |-> {}, rejoin |-> FALSE, skipped |-> 0, hits |-> 0]

\* the tag rule as the specification states it
RuleCompatible(a, b) ==
  \/ a = {} /\ b = {}
  \/ a # {} /\ b # {} /\ a \cap b # {}

\* the pool as the requester s finds it: everybody else's entries, in order
PoolOfOthers(s) == SelectSeq(waitingQueue, LAMBDA w : w.id # s)

\* a join_mode of s ends its run of withdrawals, and a match (re)creates its
\* room: the counts of s and of that room start again
HistJoin(s) ==
  /\ pdCount' = {k \in pdCount : k[1] # s /\ k[2] \notin HumanMatches(emits')}
  /\ withdrawn' = {k \in withdrawn : k[1] # s /\ k[2] \notin HumanMatches(emits')}
  /\ wdRun' = [wdRun EXCEPT ![s] = 0]

\* lastJoin: the socket and its request, whether it was already waiting, how many
\* entries sat before the one it was matched with, and how many entries its tags
\* were compatible with
HistScan(s, request) ==
  /\ lastJoin' =
       [sock |-> s, mode |-> request.mode, interests |-> request.interests,
        rejoin |-> \E i \in DOMAIN waitingQueue : waitingQueue[i].id = s,
        skipped |-> IF request.mode = "human" /\ Len(waitingQueue') < Len(PoolOfOthers(s))
                    THEN Cardinality({i \in DOMAIN waitingQueue' :
                                        waitingQueue'[i] = PoolOfOthers(s)[i]})
                    ELSE 0,
        hits |-> IF request.mode = "human"
                 THEN Cardinality({i \in DOMAIN PoolOfOthers(s) :
                        RuleCompatible(request.interests, PoolOfOthers(s)[i].interests)})
                 ELSE 0]

\* a withdrawal of s (leave_chat or disconnect): count what it sent, room by room
HistWithdraw(s) ==
  /\ pdCount' = {k \in pdCount : ~(k[1] = s /\ k[2] \in rooms[s])}
                  \cup {<<s, r, Min({2, PdSent(s, r) + CountPd(emits', r)})>> :
                          r \in {x \in rooms[s] : PdSent(s, x) + CountPd(emits', x) > 0}}
  /\ withdrawn' = withdrawn \cup {<<s, r>> : r \in {x \in rooms[s] : Others(s, x) # {}}}
  /\ wdRun' = [wdRun EXCEPT ![s] = Min({2, @ + 1})]

(* ------------------------- the client's state -------------------------- *)
\* const socket = io(...): the socket the React client runs on
ME == 1
\* the sockets that stay arbitrary clients in SpecClient
RawSockets == Sockets \ {ME}

\* sockets that connect in SpecClient: the client and the arbitrary ones
MaxClientSockets == 2
\* client -> server events in flight; the client emits (two events at most per
\* click) only while they fit
MaxUp == 2
\* server -> client events in flight beyond which the other sockets wait
MaxDown == 1
\* match_found events the client is sent in one behaviour
MaxEpoch == 2

\* chatData: null (set = FALSE) or the payload of a match_found; epoch is history
\* (the how-manieth match_found it was) and stands for the object's identity
NoChat ==
  [set |-> FALSE, roomId |-> <<0, 0>>, peerId |-> 0, isAi |-> FALSE, initiator |-> FALSE,
   epoch |-> 0]

\* const peer = new Peer(...) as the closures of one effect run see it;
\* fed: peer.signal() has been called on it; tornByPd: history, the
\* peer-disconnected effect destroyed it
NoInst ==
  [exists |-> FALSE, destroyed |-> FALSE, fed |-> FALSE, peerId |-> 0, initiator |-> FALSE,
   epoch |-> 0, tornByPd |-> FALSE]

\* outcome: "none" (no signal_received handled last), "nolistener", "ignored"
\* (data.from differs), "live" or "destroyed" (peer.signal called on such a Peer)
NoFeed == [outcome |-> "none", from |-> 0, epoch |-> 0, instEpoch |-> 0, afterPd |-> FALSE]

\* the dependency values of the effects, as the current state has them
Deps ==
  [chatData |-> chatData, myStream |-> myStream, isPeerDisconnected |-> isPeerDisconnected,
   enabled |-> hardwareRequested, view |-> view, mode |-> mode]

\* state was set since the last commit: a render with effects is due
Dirty == rendered # Deps

\* useState / useRef initial values, after the first render's effects
ClientInit ==
  /\ view = "HOME"
  /\ mode = "none"
  /\ hardwareRequested = FALSE
  /\ chatData = NoChat
  /\ isPeerDisconnected = FALSE
  /\ myStream = FALSE
  /\ streamRef = FALSE
  /\ camMounted = FALSE
  /\ connectionState = "idle"
  /\ peerStream = FALSE
  /\ peerRef = FALSE
  /\ inst = NoInst
  /\ rendered = [chatData |-> NoChat, myStream |-> FALSE, isPeerDisconnected |-> FALSE,
                 enabled |-> FALSE, view |-> "HOME", mode |-> "none"]
  /\ toRun = {}
  /\ sync = FALSE
  /\ up = <<>>
  /\ down = <<>>
  /\ matchCount = 0
  /\ pdSeen = 0
  /\ lastFeed = NoFeed
  /\ hookEnabled = FALSE
  /\ hookRun = [enabled |-> FALSE, call |-> 0]
  /\ hookStream = 0
  /\ hookRef = 0
  /\ calls = <<>>
  /\ hookGone = FALSE
  /\ messages = <<>>

(* ------------------------- the server alone ---------------------------- *)
Init ==
  /\ status = [s \in Sockets |-> "fresh"]
  /\ waitingQueue = <<>>
  /\ rooms = [s \in Sockets |-> {}]
  /\ emits = <<>>
  /\ serverUp = TRUE
  /\ pending = <<>>
  /\ pdCount = {}
  /\ withdrawn = {}
  /\ wdRun = [s \in Sockets |-> 0]
  /\ lastJoin = NoScan
  /\ inAgent = [s \in Sockets |-> FALSE]
  /\ lastCall = NoCall
  /\ lastOp = NoOp
  /\ ClientInit

\* io.on("connection", (socket) => ...): the transport hands out the next id
Connect ==
  \E s \in Sockets :
    /\ serverUp
    /\ status[s] = "fresh"
    /\ \A t \in Sockets : t < s => status[t] # "fresh"
    /\ status' = [status EXCEPT ![s] = "open"]
    /\ emits' = <<>>
    /\ lastJoin' = NoScan
    /\ UNCHANGED <<waitingQueue, rooms, serverUp, pending, pdCount, withdrawn, wdRun, inAgent, opVars, clientVars>>

RawJoinMode ==
  \E s \in Sockets, request \in Requests :
    /\ serverUp
    /\ status[s] = "open"
    /\ JoinMode(s, request)
    /\ \A t \in Sockets : Cardinality(rooms'[t]) <= MaxRooms
    /\ HistScan(s, request)
    /\ UNCHANGED <<status, pending, pdCount, withdrawn, wdRun, inAgent, opVars, clientVars>>

RawLeaveChat ==
  \E s \in Sockets :
    /\ serverUp
    /\ status[s] = "open"
    /\ LeaveChat(s)
    /\ lastJoin' = NoScan
    /\ UNCHANGED <<status, pending, pdCount, withdrawn, wdRun, inAgent, opVars, clientVars>>

RawDisconnect ==
  \E s \in Sockets :
    /\ serverUp
    /\ status[s] = "open"
    /\ Disconnecting(s)
    /\ status' = [status EXCEPT ![s] = "closed"]
    /\ lastJoin' = NoScan
    /\ UNCHANGED <<pending, pdCount, withdrawn, wdRun, inAgent, opVars, clientVars>>

Next ==
  \/ Connect
  \/ RawJoinMode
  \/ RawLeaveChat
  \/ RawDisconnect

Spec == Init /\ [][Next]_vars

(* ------------------------- the server, counting notifications ---------- *)
\* SpecWithdraw: the same handlers, with the history of peer_disconnected events
\* kept per withdrawing socket and room. Tags play no part in a withdrawal, so
\* requests carry an empty list here.
WdRequests == {request \in Requests : request.interests = {}}

WdConnect == Connect

WdJoinMode ==
  \E s \in Sockets, request \in WdRequests :
    /\ serverUp
    /\ status[s] = "open"
    /\ JoinMode(s, request)
    /\ \A t \in Sockets : Cardinality(rooms'[t]) <= MaxRooms
    /\ HistJoin(s)
    /\ UNCHANGED <<status, pending, lastJoin, inAgent, opVars, clientVars>>

WdLeaveChat ==
  \E s \in Sockets :
    /\ serverUp
    /\ status[s] = "open"
    /\ LeaveChat(s)
    /\ HistWithdraw(s)
    /\ UNCHANGED <<status, pending, lastJoin, inAgent, opVars, clientVars>>

WdDisconnect ==
  \E s \in Sockets :
    /\ serverUp
    /\ status[s] = "open"
    /\ Disconnecting(s)
    /\ HistWithdraw(s)
    /\ status' = [status EXCEPT ![s] = "closed"]
    /\ UNCHANGED <<pending, lastJoin, inAgent, opVars, clientVars>>

NextWithdraw ==
  \/ WdConnect
  \/ WdJoinMode
  \/ WdLeaveChat
  \/ WdDisconnect

SpecWithdraw == Init /\ [][NextWithdraw]_vars

(* ------------------------- the server, relaying ------------------------ *)
\* SpecRelay: every control event a socket can send to the server, with the
\* history of who withdrew from which room. A socket names any target in a
\* signal and any room in a send_message, and its join_mode may lack interests.
RlRequests == WdRequests \cup {Malformed}

\* rooms a socket is in at once in SpecRelay
MaxRelayRooms == 1

\* distinct signal payloads (SDP or ICE data, opaque to the server)
NumPayloads == 2
Payloads == 0..(NumPayloads - 1)

HumanRooms == Sockets \X Sockets

RlConnect == Connect

RlJoinMode ==
  \E s \in Sockets, request \in RlRequests :
    /\ serverUp
    /\ status[s] = "open"
    /\ JoinMode(s, request)
    /\ \A t \in Sockets : Cardinality(rooms'[t]) <= MaxRelayRooms
    /\ HistJoin(s)
    /\ lastOp' = NoOp
    /\ UNCHANGED <<status, pending, lastJoin, inAgent, lastCall, clientVars>>

RlSignal ==
  \E s \in Sockets, target \in Sockets, signal \in Payloads :
    /\ serverUp
    /\ status[s] = "open"
    /\ Signal(s, [target |-> target, signal |-> signal])
    /\ lastOp' = [NoOp EXCEPT !.op = "signal", !.sock = s, !.target = target,
                              !.signal = signal]
    /\ UNCHANGED <<status, pending, pdCount, withdrawn, wdRun, inAgent, lastJoin, lastCall,
                   clientVars>>

RlSendMessage ==
  \E s \in Sockets, roomId \in HumanRooms :
    /\ serverUp
    /\ status[s] = "open"
    /\ SendMessageHuman(s, [roomId |-> roomId, isAi |-> FALSE])
    /\ lastOp' = [NoOp EXCEPT !.op = "send_message", !.sock = s]
    /\ UNCHANGED <<status, pending, pdCount, withdrawn, wdRun, inAgent, lastJoin, lastCall,
                   clientVars>>

RlLeaveChat ==
  \E s \in Sockets :
    /\ serverUp
    /\ status[s] = "open"
    /\ LeaveChat(s)
    /\ HistWithdraw(s)
    /\ lastOp' = NoOp
    /\ UNCHANGED <<status, pending, lastJoin, inAgent, lastCall, clientVars>>

RlDisconnect ==
  \E s \in Sockets :
    /\ serverUp
    /\ status[s] = "open"
    /\ Disconnecting(s)
    /\ HistWithdraw(s)
    /\ status' = [status EXCEPT ![s] = "closed"]
    /\ lastOp' = NoOp
    /\ UNCHANGED <<pending, lastJoin, inAgent, lastCall, clientVars>>

NextRelay ==
  \/ RlConnect
  \/ RlJoinMode
  \/ RlSignal
  \/ RlSendMessage
  \/ RlLeaveChat
  \/ RlDisconnect

SpecRelay == Init /\ [][NextRelay]_vars

(* ------------------------- the server, pool upkeep --------------------- *)
\* SpecPool: human requests with tags, so that the pool holds several entries,
\* and the record of which socket withdrew last and whether it was waiting.
PlRequests == {request \in Requests : request.mode = "human"}

Queued(s) == \E i \in DOMAIN waitingQueue : waitingQueue[i].id = s

PlConnect ==
  \E s \in Sockets :
    /\ serverUp
    /\ status[s] = "fresh"
    /\ \A t \in Sockets : t < s => status[t] # "fresh"
    /\ status' = [status EXCEPT ![s] = "open"]
    /\ emits' = <<>>
    /\ lastOp' = NoOp
    /\ UNCHANGED <<waitingQueue, rooms, serverUp, pending, pdCount, withdrawn, wdRun, inAgent,
                   lastJoin, lastCall, clientVars>>

PlJoinMode ==
  \E s \in Sockets, request \in PlRequests :
    /\ serverUp
    /\ status[s] = "open"
    /\ JoinMode(s, request)
    /\ \A t \in Sockets : Cardinality(rooms'[t]) <= MaxRooms
    /\ lastOp' = NoOp
    /\ UNCHANGED <<status, pending, pdCount, withdrawn, wdRun, inAgent, lastJoin, lastCall,
                   clientVars>>

PlLeaveChat ==
  \E s \in Sockets :
    /\ serverUp
    /\ status[s] = "open"
    /\ LeaveChat(s)
    /\ lastOp' = [NoOp EXCEPT !.op = "leave_chat", !.sock = s, !.queued = Queued(s)]
    /\ UNCHANGED <<status, pending, pdCount, withdrawn, wdRun, inAgent, lastJoin, lastCall,
                   clientVars>>

PlDisconnect ==
  \E s \in Sockets :
    /\ serverUp
    /\ status[s] = "open"
    /\ Disconnecting(s)
    /\ status' = [status EXCEPT ![s] = "closed"]
    /\ lastOp' = [NoOp EXCEPT !.op = "disconnect", !.sock = s, !.queued = Queued(s)]
    /\ UNCHANGED <<pending, pdCount, withdrawn, wdRun, inAgent, lastJoin, lastCall, clientVars>>

NextPool ==
  \/ PlConnect
  \/ PlJoinMode
  \/ PlLeaveChat
  \/ PlDisconnect

SpecPool == Init /\ [][NextPool]_vars

(* ------------------------- send_message (agent branch) ----------------- *)
\* callGeminiRetry(history, retries = 3, delay = 1000)
Retries == 3
BaseDelay == 1000

RECURSIVE Pow2(_)
Pow2(n) == IF n = 0 THEN 1 ELSE 2 * Pow2(n - 1)

\* a call of callGeminiRetry in flight: the socket whose send_message awaits it,
\* the attempt the loop is in, whether it awaits the backend or the backoff
\* timer, and the delays waited so far. History: inSession, the call was made in
\* an agent session of the socket; torn, that session has been torn down since
NewCall(s) ==
  [sock |-> s, attempt |-> 1, phase |-> "calling", delays |-> <<>>,
   inSession |-> inAgent[s], torn |-> FALSE]

\* what an attempt can come back with: text, an empty text, an error whose
\* message carries 503 / 500 / 429, any other error
Outcomes == {"text", "empty", "transient", "other"}

\* a classification that also retries errors without a 503 / 500 / 429 signature
TransientOrOther(outcome) == outcome \in {"transient", "other"}

\* msg.includes("503") || msg.includes("500") || msg.includes("429"); the
\* Error("Empty response") thrown for an empty text carries none of them
Transient(outcome) == outcome = "transient"

\* backoff waits that halve instead of doubling
BackoffDelayShrinking(attempt) == BaseDelay * Pow2(Retries - attempt)

\* delay * Math.pow(2, attempt)
BackoffDelay(attempt) == BaseDelay * Pow2(attempt)

AiRes == [NoMsg EXCEPT !.ev = "receive_message", !.sender = "ai"]

\* the catch branch answering in the agent's name
AiOfflineAsAgent == AiRes

AiOffline == [NoMsg EXCEPT !.ev = "receive_message", !.sender = "system"]

RemoveAt(q, i) == SubSeq(q, 1, i - 1) \o SubSeq(q, i + 1, Len(q))

\* socket.on("send_message", async (data) => ...) with data.isAi: the handler
\* suspends at await callGeminiRetry(...)
SendMessageAi(s) ==
  /\ pending' = Append(pending, NewCall(s))
  /\ emits' = <<>>
  /\ UNCHANGED <<waitingQueue, rooms, serverUp>>

\* the backend answers attempt `attempt` of call i; the loop either returns,
\* waits delay * 2^attempt and tries again, or throws into the handler's catch
BackendReply(i, outcome) ==
  LET call == pending[i]
      retry == /\ call.attempt < Retries
               /\ Transient(outcome)
      waits == IF outcome # "text" /\ retry
               THEN Append(call.delays, BackoffDelay(call.attempt))
               ELSE call.delays
  IN  /\ call.phase = "calling"
      /\ lastCall' = [sock |-> call.sock, attempt |-> call.attempt, outcome |-> outcome,
                      next |-> IF outcome = "text" THEN "return"
                               ELSE IF retry THEN "backoff" ELSE "throw",
                      delays |-> waits]
      /\ IF outcome = "text" THEN
           /\ pending' = RemoveAt(pending, i)
           /\ emits' = EmitTo(call.sock, [AiRes EXCEPT !.stale = call.inSession /\ call.torn])
         ELSE IF retry THEN
           /\ pending' = [pending EXCEPT ![i].phase = "backoff", ![i].delays = waits]
           /\ emits' = <<>>
         ELSE
           /\ pending' = RemoveAt(pending, i)
           /\ emits' = EmitTo(call.sock, [AiOffline EXCEPT !.stale = call.inSession /\ call.torn])
      /\ UNCHANGED <<waitingQueue, rooms, serverUp>>

\* the setTimeout of the backoff fires: the loop goes to its next attempt
BackoffDone(i) ==
  /\ pending[i].phase = "backoff"
  /\ pending' = [pending EXCEPT ![i].phase = "calling", ![i].attempt = @ + 1]
  /\ emits' = <<>>
  /\ UNCHANGED <<waitingQueue, rooms, serverUp>>

\* history: a join_mode, leave_chat or disconnect of s ends the agent session
\* its calls in flight were made in
EndAgentSession(s) ==
  [i \in DOMAIN pending |->
     IF pending[i].sock = s THEN [pending[i] EXCEPT !.torn = TRUE] ELSE pending[i]]

(* ------------------------- the server with the agent adapter ----------- *)
\* SpecAgent: the handlers again, with the agent branch of send_message and the
\* backend as the environment
AgConnect ==
  /\ Connect
  /\ \A s \in Sockets : s > MaxAgentSockets => status'[s] = "fresh"

\* an event loop that a backend call in flight keeps busy (an in-line call)
EventLoopHeldByCall == serverUp /\ pending = <<>>

\* Node runs the next listener whenever the process is up: send_message awaits
\* callGeminiRetry, which awaits the backend and the setTimeout of its backoff
EventLoopFree == serverUp

AgJoinModeOf(s, request) ==
  /\ EventLoopFree
  /\ status[s] = "open"
  /\ JoinMode(s, request)
  /\ \A t \in Sockets : Cardinality(rooms'[t]) <= MaxRooms
  /\ pending' = EndAgentSession(s)
  /\ inAgent' = [inAgent EXCEPT ![s] = (request.mode = "ai")]
  /\ UNCHANGED <<status, pdCount, withdrawn, wdRun, lastJoin, lastOp, clientVars>>
  /\ lastCall' = NoCall

AgJoinMode == \E s \in Sockets, request \in WdRequests : AgJoinModeOf(s, request)

AgLeaveChatOf(s) ==
  /\ EventLoopFree
  /\ status[s] = "open"
  /\ LeaveChat(s)
  /\ pending' = EndAgentSession(s)
  /\ inAgent' = [inAgent EXCEPT ![s] = FALSE]
  /\ UNCHANGED <<status, pdCount, withdrawn, wdRun, lastJoin, lastOp, clientVars>>
  /\ lastCall' = NoCall

AgLeaveChat == \E s \in Sockets : AgLeaveChatOf(s)

AgDisconnectOf(s) ==
  /\ EventLoopFree
  /\ status[s] = "open"
  /\ Disconnecting(s)
  /\ status' = [status EXCEPT ![s] = "closed"]
  /\ pending' = EndAgentSession(s)
  /\ inAgent' = [inAgent EXCEPT ![s] = FALSE]
  /\ UNCHANGED <<pdCount, withdrawn, wdRun, lastJoin, lastOp, clientVars>>
  /\ lastCall' = NoCall

AgDisconnect == \E s \in Sockets : AgDisconnectOf(s)

AgSendMessageOf(s) ==
  /\ EventLoopFree
  /\ status[s] = "open"
  /\ Len(pending) < MaxPending
  /\ SendMessageAi(s)
  /\ lastCall' = NoCall
  /\ UNCHANGED <<status, pdCount, withdrawn, wdRun, inAgent, lastJoin, lastOp, clientVars>>

AgSendMessage == \E s \in Sockets : AgSendMessageOf(s)

\* send_message with isAi false, while agent calls may be in flight
AgSendHumanOf(s, roomId) ==
  /\ EventLoopFree
  /\ status[s] = "open"
  /\ SendMessageHuman(s, [roomId |-> roomId, isAi |-> FALSE])
  /\ lastCall' = NoCall
  /\ UNCHANGED <<status, pending, pdCount, withdrawn, wdRun, inAgent, lastJoin, lastOp,
                 clientVars>>

AgSendHuman == \E s \in Sockets, roomId \in HumanRooms : AgSendHumanOf(s, roomId)

\* signal, while agent calls may be in flight
AgSignalOf(s, target) ==
  /\ EventLoopFree
  /\ status[s] = "open"
  /\ Signal(s, [target |-> target, signal |-> 0])
  /\ lastCall' = NoCall
  /\ UNCHANGED <<status, pending, pdCount, withdrawn, wdRun, inAgent, lastJoin, lastOp,
                 clientVars>>

AgSignal == \E s \in Sockets, target \in Sockets : AgSignalOf(s, target)

AgBackendReply ==
  \E i \in DOMAIN pending, outcome \in Outcomes :
    /\ serverUp
    /\ BackendReply(i, outcome)
    /\ UNCHANGED <<status, pdCount, withdrawn, wdRun, inAgent, lastJoin, lastOp, clientVars>>

AgBackoffDone ==
  \E i \in DOMAIN pending :
    /\ serverUp
    /\ BackoffDone(i)
    /\ lastCall' = NoCall
    /\ UNCHANGED <<status, pdCount, withdrawn, wdRun, inAgent, lastJoin, lastOp, clientVars>>

NextAgent ==
  \/ AgConnect
  \/ AgJoinMode
  \/ AgLeaveChat
  \/ AgDisconnect
  \/ AgSendMessage
  \/ AgSendHuman
  \/ AgSignal
  \/ AgBackendReply
  \/ AgBackoffDone

SpecAgent == Init /\ [][NextAgent]_vars

(* ------------------------- useWebRTC ----------------------------------- *)
\* the hook's state and ref as one record, so that effects can be composed
Hook ==
  [connectionState |-> connectionState, peerStream |-> peerStream, peerRef |-> peerRef,
   inst |-> inst]

\* the peer-disconnected effect without setPeerStream(null)
TearDownKeepsStream(isPD, h) ==
  IF isPD /\ h.peerRef
  THEN [h EXCEPT !.inst.destroyed = TRUE, !.inst.tornByPd = TRUE, !.peerRef = FALSE,
                 !.connectionState = "idle"]
  ELSE h

\* the peer-disconnected effect with its body left out
TearDownNever(isPD, h) == h

\* useEffect(() => { if (isPeerDisconnected && peerRef.current) { destroy ... } },
\*           [isPeerDisconnected]): the listener of the effect run that made the
\* Peer stays registered
TearDown(isPD, h) ==
  IF isPD /\ h.peerRef
  THEN [h EXCEPT !.inst.destroyed = TRUE, !.inst.tornByPd = TRUE, !.peerRef = FALSE,
                 !.peerStream = FALSE, !.connectionState = "idle"]
  ELSE h

\* the body of the connection effect: two early returns, then new Peer(...),
\* socket.on("signal_received", handleIncomingSignal), peerRef.current = peer
StartPeer(cd, ms, isPD, h) ==
  IF ~cd.set \/ ~ms \/ isPD THEN h
  ELSE IF h.peerRef THEN h
  ELSE [h EXCEPT !.connectionState = "connecting",
                 !.inst = [NoInst EXCEPT !.exists = TRUE, !.peerId = cd.peerId,
                                         !.initiator = cd.initiator, !.epoch = cd.epoch],
                 !.peerRef = TRUE]

\* a cleanup that only clears peerRef.current
CleanupPeerRefOnly(h) == [h EXCEPT !.peerRef = FALSE]

\* the cleanup the connection effect returns (none if the run returned early):
\* socket.off, destroy, peerRef.current = null, idle, no remote stream
CleanupPeer(h) ==
  IF ~h.inst.exists THEN h
  ELSE [h EXCEPT !.inst = NoInst, !.peerRef = FALSE, !.connectionState = "idle",
                 !.peerStream = FALSE]

\* handleIncomingSignal without its test
FromAny(data, peerId) == TRUE

\* data.from === chatData.peerId
FromMatches(data, peerId) == data.from = peerId

\* handleIncomingSignal, if registered: peer.signal(data.signal) on the closure's
\* Peer; simple-peer throws when asked to signal a destroyed Peer
HandleIncomingSignal(data, h) ==
  IF h.inst.exists /\ FromMatches(data, h.inst.peerId) /\ ~h.inst.destroyed
  THEN [h EXCEPT !.inst.fed = TRUE]
  ELSE h

FeedOutcome(data, h) ==
  IF ~h.inst.exists THEN "nolistener"
  ELSE IF ~FromMatches(data, h.inst.peerId) THEN "ignored"
  ELSE IF h.inst.destroyed THEN "destroyed"
  ELSE "live"

SetHook(h) ==
  /\ connectionState' = h.connectionState
  /\ peerStream' = h.peerStream
  /\ peerRef' = h.peerRef
  /\ inst' = h.inst

(* ------------------------- the client's socket listeners --------------- *)
\* the event loop can run a callback: no commit is in progress
MeRuns == toRun = {} /\ ~sync

\* a ChatMessage of the list: who wrote it; epoch is history, the epoch of the
\* event that brought it (see Relay)
Turn(sender, epoch) == [sender |-> sender, epoch |-> epoch]

\* the updater of peer_disconnected: the notice "Your partner has disconnected."
\* (the only system turn here) is appended unless the last turn is that notice
WithNotice(prev, epoch) ==
  IF prev # <<>> /\ prev[Len(prev)].sender = "system"
  THEN prev
  ELSE Append(prev, Turn("system", epoch))

\* socket.on("waiting_in_queue", () => setView("WAITING"))
OnWaitingInQueue ==
  /\ MeRuns
  /\ down # <<>>
  /\ Head(down).ev = "waiting_in_queue"
  /\ down' = Tail(down)
  /\ view' = "WAITING"
  /\ lastFeed' = NoFeed
  /\ UNCHANGED <<mode, hardwareRequested, chatData, isPeerDisconnected, mediaVars, rtcVars,
                 reactVars, up, matchCount, pdSeen, serverVars, histVars, hookVars, chatVars>>

\* socket.on("match_found", (data) => ...)
OnMatchFound ==
  /\ MeRuns
  /\ down # <<>>
  /\ Head(down).ev = "match_found"
  /\ down' = Tail(down)
  /\ isPeerDisconnected' = FALSE
  /\ chatData' = [set |-> TRUE, roomId |-> Head(down).roomId, peerId |-> Head(down).peerId,
                  isAi |-> Head(down).isAi, initiator |-> Head(down).initiator,
                  epoch |-> Head(down).epoch]
  /\ view' = "ROOM"
  /\ lastFeed' = NoFeed
  /\ UNCHANGED <<mode, hardwareRequested, mediaVars, rtcVars, reactVars, up, matchCount,
                 pdSeen, serverVars, histVars, hookVars, chatVars>>

\* socket.on("peer_disconnected", () => ...)
OnPeerDisconnected ==
  /\ MeRuns
  /\ down # <<>>
  /\ Head(down).ev = "peer_disconnected"
  /\ down' = Tail(down)
  /\ isPeerDisconnected' = TRUE
  /\ messages' = WithNotice(messages, Head(down).epoch)
  /\ lastFeed' = NoFeed
  /\ UNCHANGED <<view, mode, hardwareRequested, chatData, mediaVars, rtcVars, reactVars, up,
                 matchCount, pdSeen, serverVars, histVars, hookVars>>

\* receive_message: setMessages(prev => [...prev, msg])
OnReceiveMessage ==
  /\ MeRuns
  /\ down # <<>>
  /\ Head(down).ev = "receive_message"
  /\ down' = Tail(down)
  /\ messages' = Append(messages, Turn(Head(down).sender, Head(down).epoch))
  /\ lastFeed' = NoFeed
  /\ UNCHANGED <<appVars, mediaVars, rtcVars, reactVars, up, matchCount, pdSeen, serverVars,
                 histVars, hookVars>>

\* signal_received: handled by handleIncomingSignal if an effect run has it
\* registered, by nobody otherwise
OnSignalReceived ==
  /\ MeRuns
  /\ down # <<>>
  /\ Head(down).ev = "signal_received"
  /\ down' = Tail(down)
  /\ SetHook(HandleIncomingSignal(Head(down), Hook))
  /\ lastFeed' = [outcome |-> FeedOutcome(Head(down), Hook), from |-> Head(down).from,
                  epoch |-> Head(down).epoch, instEpoch |-> inst.epoch,
                  afterPd |-> inst.tornByPd]
  /\ UNCHANGED <<appVars, mediaVars, reactVars, up, matchCount, pdSeen, serverVars, histVars, hookVars, chatVars>>

Deliver ==
  \/ OnWaitingInQueue
  \/ OnMatchFound
  \/ OnPeerDisconnected
  \/ OnSignalReceived

(* ------------------------- React: commit ------------------------------- *)
\* the effects whose dependency arrays changed since the last commit
Changed ==
  (IF rendered.enabled # hardwareRequested THEN {"media"} ELSE {})
    \cup (IF rendered.isPeerDisconnected # isPeerDisconnected THEN {"pd"} ELSE {})
    \cup (IF rendered.chatData # chatData \/ rendered.myStream # myStream
          THEN {"rtc"} ELSE {})
    \cup (IF rendered.myStream # myStream \/ rendered.view # view \/ rendered.mode # mode
          THEN {"hw"} ELSE {})

\* render, then the cleanups of every effect that is about to run again:
\* useMediaStream's (mounted = false, stop the tracks) and the connection effect's.
\* A getUserMedia call of a cleaned-up run only stops its own tracks when it
\* resolves, so it is not pending for the model any more.
CommitCleanup ==
  /\ toRun = {}
  /\ Dirty
  /\ SetHook(IF "rtc" \in Changed THEN CleanupPeer(Hook) ELSE Hook)
  /\ IF "media" \in Changed
     THEN /\ camMounted' = FALSE
          /\ streamRef' = FALSE
     ELSE UNCHANGED <<camMounted, streamRef>>
  /\ rendered' = Deps
  /\ toRun' = Changed
  /\ lastFeed' = NoFeed
  /\ UNCHANGED <<appVars, myStream, sync, netVars, serverVars, histVars, hookVars, chatVars>>

JoinModeEvent(m) == [ev |-> "join_mode", mode |-> m, target |-> 0]
LeaveChatEvent == [ev |-> "leave_chat", mode |-> "none", target |-> 0]
SignalEvent(t) == [ev |-> "signal", mode |-> "none", target |-> t]

\* the bodies of those effects, in the order the hooks are called: useMediaStream,
\* the peer-disconnected effect, the connection effect, the HARDWARE effect.
\* Each sees the props of the render (rendered) and the refs as they are now.
CommitEffects ==
  /\ toRun # {}
  /\ LET join == "hw" \in toRun /\ rendered.view = "HARDWARE" /\ rendered.myStream
         off == "media" \in toRun /\ ~rendered.enabled
         h1 == IF "pd" \in toRun THEN TearDown(rendered.isPeerDisconnected, Hook) ELSE Hook
         h2 == IF "rtc" \in toRun
               THEN StartPeer(rendered.chatData, rendered.myStream,
                              rendered.isPeerDisconnected, h1)
               ELSE h1
     IN  /\ SetHook(h2)
         /\ camMounted' = IF "media" \in toRun /\ rendered.enabled THEN TRUE ELSE camMounted
         /\ streamRef' = IF off THEN FALSE ELSE streamRef
         /\ myStream' = IF off THEN FALSE ELSE myStream
         /\ up' = IF join THEN Append(up, JoinModeEvent(rendered.mode)) ELSE up
         /\ view' = IF join THEN "WAITING" ELSE view
         /\ sync' = (sync /\ (join \/ (off /\ myStream)))
  /\ toRun' = {}
  /\ UNCHANGED <<mode, hardwareRequested, chatData, isPeerDisconnected, rendered, down,
                 matchCount, pdSeen, lastFeed, serverVars, histVars, hookVars, chatVars>>

(* ------------------------- the user's clicks --------------------------- *)
\* a button of the committed view can be clicked; React flushes the handler's
\* updates before anything else runs
Clickable == toRun = {} /\ ~sync /\ ~Dirty /\ Len(up) + 2 <= MaxUp

\* the buttons that only call setView
Navigate ==
  \E step \in {<<"HOME", "INTERESTS">>, <<"INTERESTS", "MODE">>, <<"INTERESTS", "HOME">>,
               <<"MODE", "INTERESTS">>} :
    /\ Clickable
    /\ view = step[1]
    /\ view' = step[2]
    /\ sync' = TRUE
    /\ lastFeed' = NoFeed
    /\ UNCHANGED <<mode, hardwareRequested, chatData, isPeerDisconnected, mediaVars, rtcVars,
                   rendered, toRun, netVars, serverVars, histVars, hookVars, chatVars>>

\* onClick={() => { setMode(...); setView("HARDWARE"); }}
ChooseMode ==
  \E m \in {"human", "ai"} :
    /\ Clickable
    /\ view = "MODE"
    /\ mode' = m
    /\ view' = "HARDWARE"
    /\ sync' = TRUE
    /\ lastFeed' = NoFeed
    /\ UNCHANGED <<hardwareRequested, chatData, isPeerDisconnected, mediaVars, rtcVars,
                   rendered, toRun, netVars, serverVars, histVars, hookVars, chatVars>>

\* onClick={() => setHardwareRequested(true)} disabled={hardwareRequested}
AllowHardware ==
  /\ Clickable
  /\ view = "HARDWARE"
  /\ ~hardwareRequested
  /\ hardwareRequested' = TRUE
  /\ sync' = TRUE
  /\ lastFeed' = NoFeed
  /\ UNCHANGED <<view, mode, chatData, isPeerDisconnected, mediaVars, rtcVars, rendered, toRun,
                 netVars, serverVars, histVars, hookVars, chatVars>>

\* onClick={() => { setHardwareRequested(false); setView("MODE"); }}
HardwareBack ==
  /\ Clickable
  /\ view = "HARDWARE"
  /\ hardwareRequested' = FALSE
  /\ view' = "MODE"
  /\ sync' = TRUE
  /\ lastFeed' = NoFeed
  /\ UNCHANGED <<mode, chatData, isPeerDisconnected, mediaVars, rtcVars, rendered, toRun,
                 netVars, serverVars, histVars, hookVars, chatVars>>

\* handleStop (the Stop buttons of the WAITING and ROOM views)
HandleStop ==
  /\ Clickable
  /\ view \in {"WAITING", "ROOM"}
  /\ hardwareRequested' = FALSE
  /\ chatData' = NoChat
  /\ isPeerDisconnected' = FALSE
  /\ view' = "INTERESTS"
  /\ messages' = <<>>
  /\ up' = Append(up, LeaveChatEvent)
  /\ sync' = TRUE
  /\ lastFeed' = NoFeed
  /\ UNCHANGED <<mode, mediaVars, rtcVars, rendered, toRun, down, matchCount, pdSeen,
                 serverVars, histVars, hookVars>>

\* handleNext (the Next button of the ROOM view)
HandleNext ==
  /\ Clickable
  /\ view = "ROOM"
  /\ chatData' = NoChat
  /\ isPeerDisconnected' = FALSE
  /\ view' = "WAITING"
  /\ messages' = <<>>
  /\ up' = up \o <<LeaveChatEvent, JoinModeEvent(mode)>>
  /\ sync' = TRUE
  /\ lastFeed' = NoFeed
  /\ UNCHANGED <<mode, hardwareRequested, mediaVars, rtcVars, rendered, toRun, down, matchCount,
                 pdSeen, serverVars, histVars, hookVars>>

(* ------------------------- the browser's events ------------------------ *)
\* getUserMedia resolves for the effect run still mounted: setStream and
\* streamRef.current
MediaGranted ==
  /\ MeRuns
  /\ camMounted
  /\ Len(up) + 2 <= MaxUp
  /\ camMounted' = FALSE
  /\ myStream' = TRUE
  /\ streamRef' = TRUE
  /\ UNCHANGED <<appVars, rtcVars, reactVars, netVars, lastFeed, serverVars, histVars, hookVars, chatVars>>

\* getUserMedia rejects: setError if mounted, which no effect depends on
MediaDenied ==
  /\ MeRuns
  /\ camMounted
  /\ camMounted' = FALSE
  /\ UNCHANGED <<appVars, myStream, streamRef, rtcVars, reactVars, netVars, lastFeed,
                 serverVars, histVars, hookVars, chatVars>>

\* a Peer that goes on emitting events after it was destroyed
PeerLiveOrDestroyed == inst.exists

\* a Peer that is not destroyed emits its events; a destroyed one emits none
PeerLive == inst.exists /\ ~inst.destroyed

\* peer.on("signal", ...): the initiator's offer, the answer once signalled,
\* and trickled candidates
OnPeerSignal ==
  /\ MeRuns
  /\ PeerLive
  /\ inst.initiator \/ inst.fed
  /\ Len(up) + 2 <= MaxUp
  /\ up' = Append(up, SignalEvent(inst.peerId))
  /\ UNCHANGED <<appVars, mediaVars, rtcVars, reactVars, down, matchCount, pdSeen, lastFeed,
                 serverVars, histVars, hookVars, chatVars>>

\* peer.on("stream", ...)
OnPeerStream ==
  /\ MeRuns
  /\ PeerLive
  /\ inst.fed
  /\ peerStream' = TRUE
  /\ connectionState' = "connected"
  /\ UNCHANGED <<appVars, mediaVars, peerRef, inst, reactVars, netVars, lastFeed, serverVars,
                 histVars, hookVars, chatVars>>

\* peer.on("error", ...): simple-peer destroys a Peer that reports an error
OnPeerError ==
  /\ MeRuns
  /\ PeerLive
  /\ connectionState' = "failed"
  /\ inst' = [inst EXCEPT !.destroyed = TRUE]
  /\ UNCHANGED <<appVars, mediaVars, peerStream, peerRef, reactVars, netVars, lastFeed,
                 serverVars, histVars, hookVars, chatVars>>

(* ------------------------- the server, serving the client -------------- *)
ToMe(es) == SelectSeq(es, LAMBDA m : m.to = ME)

CountEv(es, ev) == Cardinality({i \in DOMAIN es : es[i].ev = ev})

\* what the handler emitted to ME travels to it in order; history: each event
\* carries the number of match_found events sent to ME up to and including it
Relay ==
  LET mine == ToMe(emits') IN
  /\ matchCount' = matchCount + CountEv(mine, "match_found")
  /\ matchCount' <= MaxEpoch
  /\ down' = down \o [i \in DOMAIN mine |-> [mine[i] EXCEPT !.epoch = matchCount']]
  /\ Len(down') <= MaxDown
  /\ pdSeen' = IF CountEv(mine, "match_found") > 0 THEN 0
               ELSE Min({2, pdSeen + CountEv(mine, "peer_disconnected")})

\* the client's tags stay empty in SpecClient
ClientRequest(m) == [mode |-> m, interests |-> {}, hasInterests |-> TRUE]

SrvJoinMode ==
  /\ serverUp
  /\ up # <<>>
  /\ Head(up).ev = "join_mode"
  /\ JoinMode(ME, ClientRequest(Head(up).mode))
  /\ Relay
  /\ up' = Tail(up)
  /\ UNCHANGED <<status, pending, histVars, hookVars, chatVars, appVars, mediaVars, rtcVars, reactVars, lastFeed>>

SrvLeaveChat ==
  /\ serverUp
  /\ up # <<>>
  /\ Head(up).ev = "leave_chat"
  /\ LeaveChat(ME)
  /\ Relay
  /\ up' = Tail(up)
  /\ UNCHANGED <<status, pending, histVars, hookVars, chatVars, appVars, mediaVars, rtcVars, reactVars, lastFeed>>

SrvSignal ==
  /\ serverUp
  /\ up # <<>>
  /\ Head(up).ev = "signal"
  /\ Signal(ME, [target |-> Head(up).target, signal |-> 0])
  /\ Relay
  /\ up' = Tail(up)
  /\ UNCHANGED <<status, pending, histVars, hookVars, chatVars, appVars, mediaVars, rtcVars, reactVars, lastFeed>>

\* what the other sockets ask for: a human match with no tags (an agent request
\* of theirs never involves the client)
OtherRequests == {request \in WdRequests : request.mode = "human"}

OtherConnect ==
  /\ Connect
  /\ \A s \in Sockets : s > MaxClientSockets => status'[s] = "fresh"

OtherJoinMode ==
  \E s \in RawSockets, request \in OtherRequests :
    /\ serverUp
    /\ status[s] = "open"
    /\ JoinMode(s, request)
    /\ \A t \in Sockets : Cardinality(rooms'[t]) <= MaxRooms
    /\ Relay
    /\ UNCHANGED <<status, pending, histVars, hookVars, chatVars, appVars, mediaVars, rtcVars, reactVars, up,
                   lastFeed>>

OtherLeaveChat ==
  \E s \in RawSockets :
    /\ serverUp
    /\ status[s] = "open"
    /\ LeaveChat(s)
    /\ Relay
    /\ UNCHANGED <<status, pending, histVars, hookVars, chatVars, appVars, mediaVars, rtcVars, reactVars, up,
                   lastFeed>>

OtherDisconnect ==
  \E s \in RawSockets :
    /\ serverUp
    /\ status[s] = "open"
    /\ Disconnecting(s)
    /\ status' = [status EXCEPT ![s] = "closed"]
    /\ Relay
    /\ UNCHANGED <<pending, histVars, hookVars, chatVars, appVars, mediaVars, rtcVars, reactVars, up, lastFeed>>

\* any socket may send signal with any target; only those aimed at ME matter here
OtherSignal ==
  \E s \in RawSockets :
    /\ serverUp
    /\ status[s] = "open"
    /\ Signal(s, [target |-> ME, signal |-> 0])
    /\ Relay
    /\ UNCHANGED <<status, pending, histVars, hookVars, chatVars, appVars, mediaVars, rtcVars, reactVars, up,
                   lastFeed>>

\* the client's socket is connected before the user can act
InitClient ==
  /\ status = [s \in Sockets |-> IF s = ME THEN "open" ELSE "fresh"]
  /\ waitingQueue = <<>>
  /\ rooms = [s \in Sockets |-> {}]
  /\ emits = <<>>
  /\ serverUp = TRUE
  /\ pending = <<>>
  /\ pdCount = {}
  /\ withdrawn = {}
  /\ wdRun = [s \in Sockets |-> 0]
  /\ lastJoin = NoScan
  /\ inAgent = [s \in Sockets |-> FALSE]
  /\ lastCall = NoCall
  /\ lastOp = NoOp
  /\ ClientInit

NextClient ==
  \/ Deliver
  \/ CommitCleanup
  \/ CommitEffects
  \/ Navigate
  \/ ChooseMode
  \/ AllowHardware
  \/ HardwareBack
  \/ HandleStop
  \/ HandleNext
  \/ MediaGranted
  \/ MediaDenied
  \/ OnPeerSignal
  \/ OnPeerStream
  \/ OnPeerError
  \/ SrvJoinMode
  \/ SrvLeaveChat
  \/ SrvSignal
  \/ OtherConnect
  \/ OtherJoinMode
  \/ OtherLeaveChat
  \/ OtherDisconnect
  \/ OtherSignal

SpecClient == InitClient /\ [][NextClient]_vars

\* the event loop runs every queued socket event and React commits every
\* scheduled render
SpecClientLive ==
  /\ SpecClient
  /\ SF_vars(Deliver)
  /\ WF_vars(CommitCleanup)
  /\ WF_vars(CommitEffects)

(* ------------------------- the text chat ------------------------------ *)
\* SpecChat: the client's message list under matchmaking and the human relay of
\* send_message; the WebRTC signalling is left to SpecClient
\* turns the list holds at most, counting the receive_message events in flight
MaxMessages == 2

\* any other socket may send send_message with any roomId
OtherSendMessage ==
  \E s \in RawSockets, roomId \in HumanRooms :
    /\ serverUp
    /\ status[s] = "open"
    /\ SendMessageHuman(s, [roomId |-> roomId, isAi |-> FALSE])
    /\ Relay
    /\ Len(messages) + CountEv(down', "receive_message") <= MaxMessages
    /\ UNCHANGED <<status, pending, histVars, hookVars, chatVars, appVars, mediaVars, rtcVars,
                   reactVars, up, lastFeed>>

DeliverChat ==
  \/ OnWaitingInQueue
  \/ OnMatchFound
  \/ OnPeerDisconnected
  \/ OnReceiveMessage

NextChat ==
  \/ DeliverChat
  \/ CommitCleanup
  \/ CommitEffects
  \/ Navigate
  \/ ChooseMode
  \/ AllowHardware
  \/ HardwareBack
  \/ HandleStop
  \/ HandleNext
  \/ MediaGranted
  \/ MediaDenied
  \/ SrvJoinMode
  \/ SrvLeaveChat
  \/ OtherConnect
  \/ OtherJoinMode
  \/ OtherLeaveChat
  \/ OtherDisconnect
  \/ OtherSendMessage

SpecChat == InitClient /\ [][NextChat]_vars

(* ------------------------- useMediaStream on its own ------------------- *)
\* SpecMedia: the hook under an owner that sets enabled at will and may unmount,
\* with every getUserMedia call kept apart. A call is "pending" (its effect run
\* has mounted = true), "orphan" (pending, mounted = false), "live" (resolved,
\* tracks running), "stopped" (tracks stopped by a cleanup or by the disabled
\* branch), "stoppedLate" (stopped on arrival) or "denied".
MaxCalls == 3

\* a resolved call whose stream keeps its tracks whatever mounted is
ResolvedKeepsTracks(state) == "live"

\* if (mounted) { setStream; streamRef.current = currentStream } else { stop }
Resolved(state) == IF state = "pending" THEN "live" ELSE "stoppedLate"

\* streamRef.current.getTracks().forEach(track => track.stop())
StopRef(cs, ref) == IF ref # 0 THEN [cs EXCEPT ![ref] = "stopped"] ELSE cs

\* return () => { mounted = false; if (streamRef.current) { stop; null } }
MediaCleanup(cs, run, ref) ==
  StopRef(IF run.call # 0 /\ cs[run.call] = "pending"
          THEN [cs EXCEPT ![run.call] = "orphan"] ELSE cs,
          ref)

\* setHardwareRequested(b) by the owner
MdSetEnabled ==
  \E b \in BOOLEAN :
    /\ ~hookGone
    /\ b # hookEnabled
    /\ b => Len(calls) < MaxCalls
    /\ hookEnabled' = b
    /\ UNCHANGED <<hookRun, hookStream, hookRef, calls, hookGone>>
    /\ UNCHANGED <<serverVars, histVars, chatVars, appVars, mediaVars, rtcVars, reactVars, netVars,
                   lastFeed>>

\* the commit of a render whose enabled differs: the cleanup of the previous
\* run, then the effect body
MdCommit ==
  /\ ~hookGone
  /\ hookRun.enabled # hookEnabled
  /\ LET cleaned == MediaCleanup(calls, hookRun, hookRef) IN
     IF hookEnabled
     THEN /\ calls' = Append(cleaned, "pending")
          /\ hookRun' = [enabled |-> TRUE, call |-> Len(calls) + 1]
          /\ hookRef' = 0
          /\ hookStream' = hookStream
     ELSE /\ calls' = cleaned
          /\ hookRun' = [enabled |-> FALSE, call |-> 0]
          /\ hookRef' = 0
          /\ hookStream' = 0
  /\ UNCHANGED <<hookEnabled, hookGone>>
  /\ UNCHANGED <<serverVars, histVars, chatVars, appVars, mediaVars, rtcVars, reactVars, netVars,
                 lastFeed>>

\* await getUserMedia(...) resolves
MdResolve ==
  \E id \in DOMAIN calls :
    /\ calls[id] \in {"pending", "orphan"}
    /\ calls' = [calls EXCEPT ![id] = Resolved(calls[id])]
    /\ IF calls[id] = "pending"
       THEN hookStream' = id /\ hookRef' = id
       ELSE UNCHANGED <<hookStream, hookRef>>
    /\ UNCHANGED <<hookEnabled, hookRun, hookGone>>
    /\ UNCHANGED <<serverVars, histVars, chatVars, appVars, mediaVars, rtcVars, reactVars, netVars,
                   lastFeed>>

\* await getUserMedia(...) rejects: setError if mounted
MdReject ==
  \E id \in DOMAIN calls :
    /\ calls[id] \in {"pending", "orphan"}
    /\ calls' = [calls EXCEPT ![id] = "denied"]
    /\ UNCHANGED <<hookEnabled, hookRun, hookStream, hookRef, hookGone>>
    /\ UNCHANGED <<serverVars, histVars, chatVars, appVars, mediaVars, rtcVars, reactVars, netVars,
                   lastFeed>>

\* the component unmounts: the cleanup of the last run
MdUnmount ==
  /\ ~hookGone
  /\ hookGone' = TRUE
  /\ calls' = MediaCleanup(calls, hookRun, hookRef)
  /\ hookRef' = 0
  /\ UNCHANGED <<hookEnabled, hookRun, hookStream>>
  /\ UNCHANGED <<serverVars, histVars, chatVars, appVars, mediaVars, rtcVars, reactVars, netVars,
                 lastFeed>>

NextMedia ==
  \/ MdSetEnabled
  \/ MdCommit
  \/ MdResolve
  \/ MdReject
  \/ MdUnmount

SpecMedia == Init /\ [][NextMedia]_vars

(* ======================= claims: matchmaking pool ====================== *)
Ids(q) == {q[i].id : i \in DOMAIN q}

\* the match_found events of the handler that ran last
MatchEvents(es, human) ==
  {i \in DOMAIN es : es[i].ev = "match_found" /\ es[i].isAi = ~human}

\* C1: a participant identity appears at most once in the waiting pool, also
\* when it sends join_mode again while it is already waiting.
C1_QueueUnique ==
  \A i, j \in DOMAIN waitingQueue :
    waitingQueue[i].id = waitingQueue[j].id => i = j

\* a socket that was already waiting sent join_mode again and waits once more
C1_Witness ==
  /\ lastJoin.rejoin
  /\ \E i \in DOMAIN waitingQueue : emits = <<[WaitingInQueue EXCEPT !.to = waitingQueue[i].id]>>

\* C2 (as claimed): no participant is a member of more than one active session
\* (a room with another member in it) at the same time.
C2_OneSession ==
  \A s \in Sockets : Cardinality({r \in rooms[s] : Others(s, r) # {}}) <= 1

\* C3: a human join_mode with tags T is matched with a waiting entry W only if
\* T and W.tags are both empty or both non-empty with a common tag, and it is
\* enqueued only if no waiting entry satisfies that.
C3_TagRule ==
  [][lastJoin'.mode = "human" =>
       LET s == lastJoin'.sock
           T == lastJoin'.interests
           pool == PoolOfOthers(s)
       IN  /\ \A i \in MatchEvents(emits', TRUE) :
                emits'[i].to = s =>
                  \E k \in DOMAIN pool :
                    /\ pool[k].id = emits'[i].peerId
                    /\ RuleCompatible(T, pool[k].interests)
                    /\ ~(T = {} /\ pool[k].interests # {})
                    /\ ~(T # {} /\ pool[k].interests = {})
           /\ (\E i \in DOMAIN waitingQueue' : waitingQueue'[i].id = s) =>
                \A k \in DOMAIN pool : ~RuleCompatible(T, pool[k].interests)
           /\ \/ \E i \in MatchEvents(emits', TRUE) : emits'[i].to = s
              \/ \E i \in DOMAIN waitingQueue' : waitingQueue'[i].id = s]_vars

\* a tagged requester was matched although an older entry was waiting in front
C3_Witness ==
  /\ MatchEvents(emits, TRUE) # {}
  /\ lastJoin.skipped >= 1
  /\ lastJoin.hits = 1

\* C4: of several compatible waiting entries the one enqueued earliest is
\* matched; older incompatible entries are skipped and every entry that is not
\* matched stays in the pool in its original order.
C4_FirstFit ==
  [][lastJoin'.mode = "human" =>
       LET s == lastJoin'.sock
           T == lastJoin'.interests
           pool == PoolOfOthers(s)
       IN  \A i \in MatchEvents(emits', TRUE) :
             emits'[i].to = s =>
               \E k \in DOMAIN pool :
                 /\ pool[k].id = emits'[i].peerId
                 /\ \A j \in 1..(k - 1) : ~RuleCompatible(T, pool[j].interests)
                 /\ waitingQueue' = SubSeq(pool, 1, k - 1) \o SubSeq(pool, k + 1, Len(pool))]_vars

\* the requester was compatible with two waiting entries and was matched
C4_Witness ==
  /\ MatchEvents(emits, TRUE) # {}
  /\ lastJoin.hits >= 2
  /\ Len(waitingQueue) >= 1

\* C5: in a human match the participant taken from the pool is notified as
\* initiator and the requester as responder; both notifications carry the same
\* session id and each names the other participant as peer.
C5_Roles ==
  [][(lastJoin'.mode = "human" /\ MatchEvents(emits', TRUE) # {}) =>
       LET s == lastJoin'.sock IN
       /\ Len(emits') = 2
       /\ LET toPartner == emits'[1]
              toSelf == emits'[2]
          IN  /\ toPartner.ev = "match_found" /\ toSelf.ev = "match_found"
              /\ toPartner.to \in Ids(PoolOfOthers(s)) \ Ids(waitingQueue')
              /\ toPartner.initiator
              /\ toPartner.peerId = s
              /\ toSelf.to = s
              /\ ~toSelf.initiator
              /\ toSelf.peerId = toPartner.to
              /\ toSelf.roomId = toPartner.roomId
              /\ ~toSelf.isAi /\ ~toPartner.isAi]_vars

\* a human match has just been announced to both participants
C5_Witness ==
  /\ Len(emits) = 2
  /\ emits[1].ev = "match_found" /\ emits[1].initiator /\ ~emits[1].isAi
  /\ emits[2].ev = "match_found" /\ ~emits[2].initiator
  /\ emits[1].to # emits[2].to

PdInFlight == \E i \in DOMAIN down : down[i].ev = "peer_disconnected"

\* the connection state machine is idle and no Peer of it is alive
HookIdle == connectionState = "idle" /\ ~peerRef /\ (inst.exists => inst.destroyed)

\* C7: when the other member A of the client's human session disconnects, at
\* whatever stage the handshake is, the client is sent peer_disconnected exactly
\* once for that session (one in that step, and never a second one before its
\* next match), and its connection state machine returns to idle with its Peer
\* destroyed: whenever peer_disconnected is on its way this eventually happens,
\* and it is so in every committed render that has isPeerDisconnected set.
C7_DisconnectTearsDown ==
  /\ [][\A a \in RawSockets :
          (status[a] = "open" /\ status'[a] = "closed" /\ rooms[a] \cap rooms[ME] # {})
            => /\ CountEv(ToMe(emits'), "peer_disconnected") = 1
               /\ Len(down') = Len(down) + 1
               /\ SubSeq(down', 1, Len(down)) = down
               /\ down'[Len(down')].ev = "peer_disconnected"
               /\ pdSeen' = 1]_vars
  /\ [](pdSeen <= 1)
  /\ []((isPeerDisconnected /\ toRun = {} /\ ~Dirty) => HookIdle)
  /\ (PdInFlight ~> HookIdle)

\* the peer disconnected after the client's Peer had been signalled, and the
\* peer-disconnected effect took that Peer down
C7_Witness ==
  /\ isPeerDisconnected
  /\ chatData.set
  /\ ~chatData.isAi
  /\ status[chatData.peerId] = "closed"
  /\ inst.fed
  /\ inst.tornByPd
  /\ HookIdle
  /\ toRun = {}

\* C8: once peer_disconnected has brought the connection state machine back to
\* idle, a signal_received from the old peer is passed to no Peer, the destroyed
\* one included.
C8_StaleSignalDiscarded ==
  lastFeed.afterPd => lastFeed.outcome \notin {"live", "destroyed"}

\* C9: a signal_received whose from is not the peer of the session the hook was
\* last rendered with is not fed to a Peer and changes neither connectionState
\* nor peerStream; and a signal fed to a live Peer was never relayed before the
\* match_found of that Peer's session.
C9_ForeignSignalIgnored ==
  [][(down # <<>> /\ Head(down).ev = "signal_received" /\ down' = Tail(down))
       => /\ ~(rendered.chatData.set /\ Head(down).from = rendered.chatData.peerId)
               => /\ lastFeed'.outcome \in {"nolistener", "ignored"}
                  /\ inst' = inst
                  /\ connectionState' = connectionState
                  /\ peerStream' = peerStream
          /\ lastFeed'.outcome = "live" => Head(down).epoch >= inst.epoch]_vars

\* a signal from somebody else arrived while a Peer was negotiating, and was ignored
C9_Witness ==
  /\ lastFeed.outcome = "ignored"
  /\ PeerLive
  /\ lastFeed.from # inst.peerId
  /\ connectionState = "connecting"

(* ======================= claims: agent relay =========================== *)
\* C10 (as claimed): when the agent session of a call in flight has been torn
\* down (leave_chat, a new join_mode, disconnect), the response or error turn of
\* that call is not sent to the participant.
C10_StaleReplyDiscarded ==
  \A i \in DOMAIN emits :
    (emits[i].ev = "receive_message" /\ emits[i].sender \in {"ai", "system"})
      => ~emits[i].stale

(* ======================= claims: the agent adapter ===================== *)
\* C11 (as claimed): an attempt that comes back with an empty text is handled as
\* a transient failure is: while attempts remain the loop backs off and tries
\* again, and it throws only at the last attempt.
C11_EmptyRetried ==
  lastCall.outcome = "empty" => (lastCall.next = "backoff" <=> lastCall.attempt < Retries)

NonDecreasing(d) == \A i \in 1..(Len(d) - 1) : d[i] <= d[i + 1]

\* a backend reply was handled in this step
ReplyStep == pending' # pending /\ lastCall'.outcome # "none"

\* C12: when every attempt fails with a transient-classified error, the loop
\* backs off after each attempt but the third, throws at the third after two
\* waits that do not decrease, and the handler then sends the sender exactly one
\* system receive_message (nothing before).
C12_TransientExhausted ==
  [][(ReplyStep /\ lastCall'.outcome = "transient")
       => IF lastCall'.attempt < 3
          THEN lastCall'.next = "backoff" /\ emits' = <<>>
          ELSE /\ lastCall'.next = "throw"
               /\ lastCall'.attempt = 3
               /\ Len(lastCall'.delays) = 2
               /\ NonDecreasing(lastCall'.delays)
               /\ \A i \in DOMAIN lastCall'.delays : lastCall'.delays[i] > 0
               /\ status[lastCall'.sock] = "open"
                    => /\ Len(emits') = 1
                       /\ emits'[1].ev = "receive_message"
                       /\ emits'[1].sender = "system"
                       /\ emits'[1].to = lastCall'.sock]_vars

\* three transient failures in a row: two waits, then the system turn
C12_Witness ==
  /\ lastCall.outcome = "transient"
  /\ lastCall.next = "throw"
  /\ lastCall.delays = <<2 * BaseDelay, 4 * BaseDelay>>
  /\ Len(emits) = 1
  /\ emits[1].sender = "system"

\* C13: an error that is not transient-classified is thrown at once, with no
\* backoff started, whatever the attempt.
C13_OtherNotRetried ==
  lastCall.outcome = "other"
    => lastCall.next = "throw" /\ Len(lastCall.delays) = lastCall.attempt - 1

\* such an error at the first attempt, with two attempts left
C13_Witness ==
  /\ lastCall.outcome = "other"
  /\ lastCall.attempt = 1
  /\ lastCall.attempt < Retries
  /\ lastCall.next = "throw"
  /\ lastCall.delays = <<>>

\* C14: when the adapter returns or throws, the handler sends exactly one
\* receive_message, to the sender only: an agent turn if it returned, a system
\* turn if it threw; the server stays up; and no step of the call before that
\* (the send_message itself, a backoff, its timer) emits anything.
C14_OneReply ==
  [][/\ ReplyStep
          => /\ serverUp'
             /\ IF lastCall'.next = "backoff" THEN emits' = <<>>
                ELSE status[lastCall'.sock] = "open"
                       => /\ Len(emits') = 1
                          /\ emits'[1].ev = "receive_message"
                          /\ emits'[1].to = lastCall'.sock
                          /\ emits'[1].sender =
                               (IF lastCall'.next = "return" THEN "ai" ELSE "system")
     /\ (lastCall' = NoCall /\ pending' # pending /\ Len(pending') >= Len(pending)
           /\ \A i \in DOMAIN pending : pending'[i].torn = pending[i].torn)
          => emits' = <<>> /\ serverUp']_vars

\* the adapter threw for a socket that is still in its agent session, and the
\* socket was sent the system turn
C14_Witness ==
  /\ lastCall.next = "throw"
  /\ inAgent[lastCall.sock]
  /\ status[lastCall.sock] = "open"
  /\ emits = <<[AiOffline EXCEPT !.to = lastCall.sock]>>

RoomEnded(r) == \E k \in withdrawn : k[2] = r

\* a and b were paired, one of them withdrew, and they share no room now
SessionEnded(a, b) ==
  /\ a # b
  /\ RoomEnded(<<a, b>>) \/ RoomEnded(<<b, a>>)
  /\ rooms[a] \cap rooms[b] = {}

\* C16: once a member of a human session has left or disconnected, no signal
\* one former member addresses to the other, and no chat message a former
\* member addresses to that room, is delivered to the other former member.
C16_NoTrafficAfterEnd ==
  \A i \in DOMAIN emits :
    /\ emits[i].ev = "signal_received" => ~SessionEnded(emits[i].from, emits[i].to)
    /\ (/\ emits[i].ev = "receive_message"
        /\ emits[i].sender = "peer"
        /\ lastOp.sock \in {emits[i].via[1], emits[i].via[2]})
         => ~RoomEnded(emits[i].via)

\* C18: no control event ends the server process, and a signal or a chat
\* message changes no pool entry and no room.
C18_AuthoritySurvives ==
  [][/\ serverUp'
     /\ lastOp'.op \in {"signal", "send_message"} =>
          waitingQueue' = waitingQueue /\ rooms' = rooms]_vars

(* ======================= claims: withdrawal and the pool =============== *)
\* C17: a leave_chat or a disconnect of P takes P's entry out of the pool when
\* P has one, takes out nobody else's, keeps the order of the entries that
\* remain, and leaves the pool as it was when P has no entry.
C17_WithdrawPurgesOwnEntry ==
  [][lastOp'.op \in {"leave_chat", "disconnect"} =>
       LET s == lastOp'.sock IN
       IF lastOp'.queued
       THEN \E i \in DOMAIN waitingQueue :
              /\ waitingQueue[i].id = s
              /\ waitingQueue' = Splice(waitingQueue, i)
              /\ s \notin Ids(waitingQueue')
       ELSE waitingQueue' = waitingQueue]_vars

\* a waiting socket disconnected and two others are still waiting
C17_Witness ==
  /\ lastOp.op = "disconnect"
  /\ lastOp.queued
  /\ Len(waitingQueue) = 2
  /\ lastOp.sock \notin Ids(waitingQueue)

(* ======================= claims: rooms ================================= *)
Members(r) == {t \in Sockets : r \in rooms[t]}

LiveRooms == UNION {rooms[t] : t \in Sockets}

\* C19: a disconnected socket is a member of no room and has no entry in the
\* pool, and no match names a socket that has disconnected; a room exists only
\* as long as it has a member.
C19_NoDanglingPeer ==
  /\ \A s \in Sockets :
       status[s] # "open" => rooms[s] = {} /\ s \notin Ids(waitingQueue)
  /\ \A i \in DOMAIN emits :
       (emits[i].ev = "match_found" /\ ~emits[i].isAi) =>
         /\ status[emits[i].to] = "open"
         /\ status[emits[i].peerId] = "open"
         /\ emits[i].roomId \in rooms[emits[i].peerId]
  /\ \A r \in LiveRooms : Members(r) # {}

\* after a socket has disconnected, a human join_mode was matched with a partner
C19_Witness ==
  /\ \E s \in Sockets : status[s] = "closed"
  /\ lastJoin.mode = "human"
  /\ \E i \in DOMAIN emits : emits[i].ev = "match_found" /\ ~emits[i].isAi

\* C20: every room has one or two members, never more, and they are among the
\* two sockets of the match that created it.
C20_RoomOfTwo ==
  \A r \in LiveRooms :
    /\ Cardinality(Members(r)) \in {1, 2}
    /\ Members(r) \subseteq {r[1], r[2]}
    /\ r[1] # r[2]

\* a room with both its members next to a room one member has left
C20_Witness ==
  \E r1 \in LiveRooms, r2 \in LiveRooms :
    /\ Cardinality(Members(r1)) = 2
    /\ Cardinality(Members(r2)) = 1

(* ======================= claims: the connection state machine ========== *)
\* C21: the connection state is connected only through the stream event of the
\* Peer of the session the hook is rendered with: that Peer exists and is not
\* destroyed, the remote stream is set, and the state before was connecting
\* (or already connected), never idle or failed.
C21_ConnectedByStream ==
  [][connectionState' = "connected" =>
       /\ inst'.exists /\ ~inst'.destroyed
       /\ peerRef'
       /\ peerStream'
       /\ rendered'.chatData.set
       /\ inst'.epoch = rendered'.chatData.epoch
       /\ inst'.peerId = rendered'.chatData.peerId
       /\ connectionState \in {"connecting", "connected"}]_vars

\* the Peer of the client's second session has delivered its stream
C21_Witness ==
  /\ connectionState = "connected"
  /\ peerStream
  /\ inst.epoch = 2

SignalsUp(q) == Cardinality({i \in DOMAIN q : q[i].ev = "signal"})

\* C22: from failed the state goes nowhere but to idle, and only by a teardown
\* (the peer-disconnected effect or the cleanup of the connection effect for a
\* changed session assignment or stream); while it is failed no Peer is created
\* and the client sends no signal; and a failed machine whose peer has
\* withdrawn does become idle.
C22_FailedIsTerminal ==
  /\ (connectionState = "failed" /\ isPeerDisconnected) ~> (connectionState = "idle")
  /\ [][connectionState = "failed" =>
       /\ connectionState' \in {"failed", "idle"}
       /\ inst.exists /\ inst.destroyed
       /\ inst' = inst \/ inst' = NoInst \/ inst' = [inst EXCEPT !.tornByPd = TRUE]
       /\ SignalsUp(up') <= SignalsUp(up)
       /\ connectionState' = "idle" =>
            \/ rendered.isPeerDisconnected /\ "pd" \in toRun
            \/ rendered'.chatData # rendered.chatData
            \/ rendered'.myStream # rendered.myStream]_vars

\* the peer's withdrawal has reached a client whose connection had failed
C22_Witness ==
  /\ connectionState = "failed"
  /\ inst.destroyed
  /\ isPeerDisconnected
  /\ ~rendered.isPeerDisconnected

(* ======================= claims: the signal relay ====================== *)
\* C23: a signal_received is emitted only by the handling of a signal event; it
\* goes to the target that event names and to nobody else, carries the event's
\* payload unchanged and carries as from the socket that sent the event.
C23_RelayTagsSender ==
  [][\A i \in DOMAIN emits' :
       emits'[i].ev = "signal_received" =>
         /\ lastOp'.op = "signal"
         /\ Len(emits') = 1
         /\ emits'[i].to = lastOp'.target
         /\ emits'[i].from = lastOp'.sock
         /\ emits'[i].signal = lastOp'.signal
         /\ status[lastOp'.sock] = "open"]_vars

\* a socket's signal with a payload reached another socket it is in no room with
C23_Witness ==
  /\ lastOp.op = "signal"
  /\ lastOp.signal = 1
  /\ lastOp.target # lastOp.sock
  /\ Len(emits) = 1
  /\ emits[1].ev = "signal_received"
  /\ emits[1].to = lastOp.target
  /\ rooms[lastOp.sock] \cap rooms[lastOp.target] = {}

(* ======================= claims: the media hook ======================== *)
\* C24: a stream with running tracks is always the one the hook holds in
\* streamRef; once the hook is rendered disabled, or has unmounted, no stream
\* it acquired has running tracks, whenever its acquisition completed, and a
\* disabled hook returns no stream.
C24_TracksStopped ==
  /\ \A id \in DOMAIN calls : calls[id] = "live" => hookRef = id /\ ~hookGone
  /\ (hookGone \/ (~hookEnabled /\ ~hookRun.enabled)) =>
       /\ \A id \in DOMAIN calls : calls[id] # "live"
       /\ hookRef = 0
  /\ (~hookGone /\ ~hookEnabled /\ ~hookRun.enabled) => hookStream = 0

\* the hook is disabled; one stream was stopped by the cleanup and one that
\* arrived after the cleanup was stopped on arrival
C24_Witness ==
  /\ ~hookEnabled /\ ~hookRun.enabled
  /\ \E id \in DOMAIN calls : calls[id] = "stoppedLate"
  /\ \E id \in DOMAIN calls : calls[id] = "stopped"

(* ======================= claims: the pool under contention ============= *)
\* C25: a human join_mode that is matched takes exactly one entry, its
\* partner's, out of the pool in the step that decides the match, so that the
\* entry is there for no later requester; nobody but the requester and that
\* partner is told of a match.
C25_EntryConsumedOnce ==
  [][(lastJoin'.mode = "human" /\ MatchEvents(emits', TRUE) # {}) =>
       LET s == lastJoin'.sock
           partners == {emits'[i].peerId : i \in {j \in MatchEvents(emits', TRUE) :
                                                    emits'[j].to = s}}
       IN  /\ Cardinality(partners) = 1
           /\ \A p \in partners :
                /\ p \in Ids(PoolOfOthers(s))
                /\ Ids(waitingQueue') = Ids(PoolOfOthers(s)) \ {p}
                /\ Len(waitingQueue') = Len(PoolOfOthers(s)) - 1
                /\ \A i \in MatchEvents(emits', TRUE) : emits'[i].to \in {s, p}
           /\ s \notin Ids(waitingQueue')]_vars

\* a requester was matched while a third socket was waiting as well: the partner
\* is out of the pool and the third socket is still in it
C25_Witness ==
  /\ lastJoin.mode = "human"
  /\ \E i \in MatchEvents(emits, TRUE) :
       /\ emits[i].to = lastJoin.sock
       /\ emits[i].peerId \notin Ids(waitingQueue)
  /\ Len(waitingQueue) = 1
  /\ lastJoin.hits = 1

\* C30: no two entries of the waiting pool are compatible with each other.
C30_NoCompatiblePairWaiting ==
  \A i \in DOMAIN waitingQueue, j \in DOMAIN waitingQueue :
    i # j => ~RuleCompatible(waitingQueue[i].interests, waitingQueue[j].interests)

\* three sockets wait, no two of them compatible
C30_Witness ==
  /\ Len(waitingQueue) = 3
  /\ Cardinality(Ids(waitingQueue)) = 3

(* ======================= claims: one Peer at a time ==================== *)
\* C26: a Peer that is not destroyed is the one peerRef holds; a Peer is
\* created only when none exists and no signal listener is registered; and a
\* commit for a changed session assignment destroys the Peer and takes its
\* listener off before any new Peer is created.
C26_OnePeer ==
  [][/\ (inst'.exists /\ ~inst'.destroyed) => peerRef'
     /\ peerRef' => inst'.exists
     /\ (peerRef' /\ ~peerRef) =>
          /\ inst = NoInst
          /\ inst'.epoch = rendered.chatData.epoch
          /\ connectionState' = "connecting"
     /\ rendered'.chatData # rendered.chatData =>
          inst' = NoInst /\ ~peerRef' /\ connectionState' = "idle"]_vars

\* the Peer of the client's second session is up after the first was destroyed
C26_Witness ==
  /\ inst.exists /\ ~inst.destroyed
  /\ peerRef
  /\ inst.epoch = 2
  /\ connectionState = "connecting"

\* C27: a transition of the connection state to idle leaves no Peer that is not
\* destroyed and no remote stream; the peer-disconnected effect and the cleanup
\* of the connection effect, run on a machine that is idle and holds no Peer,
\* destroy nothing and leave the connection state, the remote stream and
\* peerRef as they were.
C27_TeardownIdempotent ==
  [][/\ (connectionState # "idle" /\ connectionState' = "idle") =>
          /\ ~peerRef'
          /\ ~peerStream'
          /\ inst'.exists => inst'.destroyed
          /\ inst.exists
     /\ connectionState' = "idle" => ~peerStream' /\ ~peerRef'
     /\ (/\ connectionState = "idle"
         /\ ~peerRef
         /\ \/ "pd" \in toRun /\ rendered.isPeerDisconnected
            \/ rendered' # rendered) =>
          /\ connectionState' = "idle"
          /\ ~peerRef'
          /\ ~peerStream'
          /\ inst.exists => inst.destroyed
          /\ inst' \in {inst, NoInst}]_vars

\* the peer-disconnected effect has run on a machine that was idle with no Peer
C27_Witness ==
  /\ rendered.isPeerDisconnected
  /\ toRun = {}
  /\ connectionState = "idle"
  /\ inst = NoInst
  /\ ~peerRef

C29_StopDiscardsInFlight ==
  [][/\ (/\ down # <<>>
         /\ down' = Tail(down)
         /\ Head(down).ev \in {"waiting_in_queue", "match_found"}
         /\ view \notin {"WAITING", "ROOM"})
          => view' = view /\ chatData' = chatData
     /\ (chatData'.set /\ ~chatData'.isAi) => chatData'.roomId \in rooms'[ME]]_vars

(* ======================= claims: no self match ========================= *)
\* C32: the two identities of a human match are distinct: no match_found names
\* its receiver as the peer, and the two match_found events of a match go to two
\* different sockets, also when the requester was already waiting.
C32_NoSelfMatch ==
  /\ \A i \in MatchEvents(emits, TRUE) :
       /\ emits[i].peerId # emits[i].to
       /\ emits[i].roomId[1] # emits[i].roomId[2]
  /\ \A i \in MatchEvents(emits, TRUE), j \in MatchEvents(emits, TRUE) :
       i # j => emits[i].to # emits[j].to

\* a socket that was already waiting sent join_mode again and was matched with
\* another socket
C32_Witness ==
  /\ lastJoin.mode = "human"
  /\ lastJoin.rejoin
  /\ \E i \in MatchEvents(emits, TRUE) :
       emits[i].to = lastJoin.sock /\ emits[i].peerId # lastJoin.sock

\* C31: while the client is in a session (chatData is set), every turn of its
\* message list, peer turn or system notice, came with an event of that session
C31_TurnsOfSession ==
  chatData.set => \A i \in DOMAIN messages : messages[i].epoch = chatData.epoch

====
